---- MODULE Spec2Model ----
(***************************************************************************)
(* SystemMemoryManager of rpi-imager: the platform total-memory probe, the *)
(* lazily cached total, and the memory-tiered sync configuration.          *)
(*                                                                         *)
(* Strings the code inspects character by character (/proc/meminfo lines)  *)
(* are sequences of one-character strings.  Every caller of the singleton  *)
(* is a thread; getTotalMemoryMB() is modelled one shared-memory access    *)
(* per step, since the field _cachedTotalMemoryMB is a plain qint64.       *)
(***************************************************************************)
EXTENDS Integers, Sequences, FiniteSets, TLC

\* ------------------------------------------------------------------ bounds
NumThreads == 2
MaxCalls == 3
MaxLines == 2
MaxTotalMB == 66000

Threads == 1..NumThreads

\* --------------------------------------------------------------- constants
\* systemmemorymanager.h (policy constants of the class)
LOW_MEMORY_THRESHOLD_MB == 4096
HIGH_MEMORY_THRESHOLD_MB == 16384
MIN_SYNC_INTERVAL_BYTES == 16 * 1024 * 1024
MAX_SYNC_INTERVAL_BYTES == 256 * 1024 * 1024
DEFAULT_SYNC_INTERVAL_MS == 5000

\* ----------------------------------------------------------------- helpers
qMax(a, b) == IF a < b THEN b ELSE a
qMin(a, b) == IF b < a THEN b ELSE a

\* C++ integer division: truncates toward zero (b > 0)
TruncDiv(a, b) == IF a >= 0 THEN a \div b ELSE -((-a) \div b)

\* (a * b) / (1024 * 1024) for non-negative a and b <= 4096 whose product
\* fits the unsigned long of the build, computed in two steps of 1024 so that
\* every intermediate stays below 2^31:
\* floor(floor(x / 1024) / 1024) = floor(x / (1024 * 1024)).
MulDivMB(a, b) ==
    LET k == (a \div 1024) * b + (((a % 1024) * b) \div 1024)
    IN  k \div 1024

\* ------------------------------------------------------- text of /proc/meminfo
MemTotalKey == <<"M", "e", "m", "T", "o", "t", "a", "l", ":">>
MemFreeKey == <<"M", "e", "m", "F", "r", "e", "e", ":">>

Digits == {"0", "1", "2", "3", "4", "5", "6", "7", "8", "9"}

DigitValue(c) ==
    CASE c = "0" -> 0 [] c = "1" -> 1 [] c = "2" -> 2 [] c = "3" -> 3
      [] c = "4" -> 4 [] c = "5" -> 5 [] c = "6" -> 6 [] c = "7" -> 7
      [] c = "8" -> 8 [] c = "9" -> 9

\* the vertical tab (U+000B), which has no escape in a string
VerticalTab == ""

\* QRegularExpression("\\s") on one character of a line: space, horizontal
\* tab, line feed, vertical tab, form feed, carriage return
IsSpace(c) == c \in {" ", "\t", "\n", VerticalTab, "\f", "\r"}

\* QString::startsWith
startsWith(line, prefix) ==
    /\ Len(line) >= Len(prefix)
    /\ SubSeq(line, 1, Len(prefix)) = prefix

\* first index >= i of s that is no whitespace (Len(s) + 1 when none)
RECURSIVE SkipSpaces(_, _)
SkipSpaces(s, i) ==
    IF i > Len(s) \/ ~IsSpace(s[i]) THEN i ELSE SkipSpaces(s, i + 1)

\* QString::split(QRegularExpression("\\s+")), Qt::KeepEmptyParts: the pieces
\* between maximal runs of whitespace, empty pieces kept
RECURSIVE SplitFrom(_, _, _, _)
SplitFrom(s, i, cur, acc) ==
    IF i > Len(s) THEN Append(acc, cur)
    ELSE IF IsSpace(s[i])
         THEN SplitFrom(s, SkipSpaces(s, i), <<>>, Append(acc, cur))
         ELSE SplitFrom(s, i + 1, Append(cur, s[i]), acc)

split(line) == SplitFrom(line, 1, <<>>, <<>>)

RECURSIVE DecimalValue(_, _)
DecimalValue(ds, acc) ==
    IF ds = <<>> THEN acc
    ELSE DecimalValue(Tail(ds), acc * 10 + DigitValue(Head(ds)))

\* QString::toLongLong(&ok), base 10: an optional sign, then one or more
\* digits and nothing else; ok = false and 0 otherwise.  Fields of the input
\* domain have at most nine digits, so the qint64 range is never exceeded.
toLongLong(s) ==
    LET signed == s # <<>> /\ Head(s) \in {"-", "+"}
        ds == IF signed THEN Tail(s) ELSE s
        ok == ds # <<>> /\ \A i \in 1..Len(ds) : ds[i] \in Digits
    IN  IF ~ok THEN [ok |-> FALSE, value |-> 0]
        ELSE [ok |-> TRUE,
              value |-> IF signed /\ Head(s) = "-"
                        THEN -DecimalValue(ds, 0) ELSE DecimalValue(ds, 0)]

\* ------------------------------------------------------------- the platform
\* What the operating system answers while the process runs.  platform is
\* the #ifdef branch compiled in; apiOk says whether the primary query
\* (GlobalMemoryStatusEx, sysctlbyname, sysinfo) succeeds; physBytes is
\* ullTotalPhys / hw.memsize; totalram and mem_unit are struct sysinfo;
\* openOk says whether /proc/meminfo opens and meminfo is its lines.
Platforms == {"Windows", "macOS", "Linux", "Unknown"}

MkHost(p, ok, bytes, ram, unit, open, lines) ==
    [platform |-> p, apiOk |-> ok, physBytes |-> bytes, totalram |-> ram,
     mem_unit |-> unit, openOk |-> open, meminfo |-> lines]

\* What one run of the probe did: the value returned, whether the text source
\* was opened, and how many of its lines were read.
ProbeOutcome(r, opened, n) == [ret |-> r, opened |-> opened, linesRead |-> n]

\* parts.size() >= 2
HasSecondPart(parts) == Len(parts) >= 2

\* return memKB / 1024
KBtoMB_Decimal(memKB) == TruncDiv(memKB, 1000)
KBtoMB(memKB) == TruncDiv(memKB, 1024)

\* QTextStream::readLine on a file opened with QIODevice::Text: the text of
\* one line of the file as the loop sees it, every carriage return dropped
NotCarriageReturn(c) == c # "\r"

readLine(raw) == SelectSeq(raw, NotCarriageReturn)

\* The while loop over the lines of /proc/meminfo, from line i on: the first
\* line starting with "MemTotal:" decides (return or break), later ones are
\* never looked at.
RECURSIVE ScanMemInfo(_, _)
ScanMemInfo(lines, i) ==
    IF i > Len(lines) THEN ProbeOutcome(0, TRUE, Len(lines))
    ELSE IF startsWith(readLine(lines[i]), MemTotalKey)
         THEN LET parts == split(readLine(lines[i]))
              IN  IF HasSecondPart(parts)
                  THEN LET n == toLongLong(parts[2])
                       IN  IF n.ok THEN ProbeOutcome(KBtoMB(n.value), TRUE, i)
                           ELSE ProbeOutcome(0, TRUE, i)
                  ELSE ProbeOutcome(0, TRUE, i)
         ELSE ScanMemInfo(lines, i + 1)

\* Method 1 of the Linux probe succeeded
SysinfoSucceeded(h) == h.apiOk

ProbeLinux(h) ==
    IF SysinfoSucceeded(h)
    THEN ProbeOutcome(MulDivMB(h.totalram, h.mem_unit), FALSE, 0)
    ELSE IF h.openOk THEN ScanMemInfo(h.meminfo, 1)
         ELSE ProbeOutcome(0, FALSE, 0)

ProbeWindows(h) ==
    IF h.apiOk THEN ProbeOutcome(h.physBytes \div (1024 * 1024), FALSE, 0)
    ELSE ProbeOutcome(0, FALSE, 0)

ProbeDarwin(h) ==
    IF h.apiOk THEN ProbeOutcome(TruncDiv(h.physBytes, 1024 * 1024), FALSE, 0)
    ELSE ProbeOutcome(0, FALSE, 0)

ProbeUnknown(h) == ProbeOutcome(0, FALSE, 0)

RunTotalProbe(h) ==
    CASE h.platform = "Windows" -> ProbeWindows(h)
      [] h.platform = "macOS" -> ProbeDarwin(h)
      [] h.platform = "Linux" -> ProbeLinux(h)
      [] OTHER -> ProbeUnknown(h)

getPlatformTotalMemoryMB(h) == RunTotalProbe(h).ret

getPlatformName(h) == h.platform

\* -------------------------------------------------------------- sync policy
\* totalMemMB < LOW_MEMORY_THRESHOLD_MB
IsLowMemory_Inclusive(totalMemMB) == totalMemMB <= LOW_MEMORY_THRESHOLD_MB
IsLowMemory(totalMemMB) == totalMemMB < LOW_MEMORY_THRESHOLD_MB

\* totalMemMB < HIGH_MEMORY_THRESHOLD_MB (evaluated in the else branch)
IsBelowHigh(totalMemMB) == totalMemMB < HIGH_MEMORY_THRESHOLD_MB

\* syncIntervalMB of the tier's branch
SyncIntervalMB_SameDivisor(totalMemMB) ==
    IF IsLowMemory(totalMemMB) THEN qMax(16, TruncDiv(totalMemMB, 64))
    ELSE IF IsBelowHigh(totalMemMB) THEN qMax(32, TruncDiv(totalMemMB, 64))
    ELSE qMin(256, qMax(64, TruncDiv(totalMemMB, 64)))
SyncIntervalMB(totalMemMB) ==
    IF IsLowMemory(totalMemMB) THEN qMax(16, TruncDiv(totalMemMB, 64))
    ELSE IF IsBelowHigh(totalMemMB) THEN qMax(32, TruncDiv(totalMemMB, 80))
    ELSE qMin(256, qMax(64, TruncDiv(totalMemMB, 64)))

\* config.syncIntervalMs of the tier's branch
SyncIntervalMs(totalMemMB) ==
    IF IsLowMemory(totalMemMB) THEN 3000
    ELSE IF IsBelowHigh(totalMemMB) THEN DEFAULT_SYNC_INTERVAL_MS
    ELSE 7000

\* config.memoryTier: QString("... memory (%1MB)").arg(totalMemMB), kept as
\* the pieces of the formatted text
MemoryTier(totalMemMB) ==
    IF IsLowMemory(totalMemMB) THEN <<"Low memory (", totalMemMB, "MB)">>
    ELSE IF IsBelowHigh(totalMemMB) THEN <<"Medium memory (", totalMemMB, "MB)">>
    ELSE <<"High memory (", totalMemMB, "MB)">>

\* qMax(MIN_SYNC_INTERVAL_BYTES, qMin(MAX_SYNC_INTERVAL_BYTES, bytes))
ApplyBounds_InMB(bytes) == qMax(16, qMin(256, bytes))
ApplyBounds(bytes) ==
    qMax(MIN_SYNC_INTERVAL_BYTES, qMin(MAX_SYNC_INTERVAL_BYTES, bytes))

\* The configuration calculateSyncConfiguration() builds from the total it
\* got from getTotalMemoryMB()
SyncConfigurationFor(totalMemMB) ==
    [syncIntervalBytes |-> ApplyBounds(SyncIntervalMB(totalMemMB) * 1024 * 1024),
     syncIntervalMs |-> SyncIntervalMs(totalMemMB),
     memoryTier |-> MemoryTier(totalMemMB)]

\* ------------------------------------------------------------- cached total
\* _cachedTotalMemoryMB == -1
CacheIsAbsent_NoCheck(cached) == TRUE
CacheIsAbsent(cached) == cached = -1

\* _cachedTotalMemoryMB <= 0
DetectionFailed_Strict(detected) == detected < 0
DetectionFailed(detected) == detected <= 0

\* the assumed total when detection failed
AssumedTotalMB == 4096

\* return getTotalMemoryMB(): what getAvailableMemoryMB() hands back for the
\* total it got, and whether it asked the platform for available memory
AvailableFromPlatform(total, available) ==
    [ret |-> IF available > 0 THEN available ELSE total, queried |-> TRUE]
AvailableFromTotal(total, available) == [ret |-> total, queried |-> FALSE]

\* ------------------------------------------------------------------- hosts
Chars2048 == <<"2", "0", "4", "8">>
Chars5000 == <<"5", "0", "0", "0">>
CharsMinus1030 == <<"-", "1", "0", "3", "0">>
CharsKB == <<"k", "B">>

\* a Linux host whose sysinfo reports mb megabytes and extra pages of 4096 bytes
SysinfoHost(mb, extra) ==
    MkHost("Linux", TRUE, 0, mb * 256 + extra, 4096, TRUE,
           <<MemTotalKey \o <<" ">> \o Chars5000 \o <<" ">> \o CharsKB>>)

\* a Linux host whose sysinfo fails and whose /proc/meminfo holds lines
MemInfoHost(open, lines) == MkHost("Linux", FALSE, 0, 0, 1, open, lines)

UnknownHost == MkHost("Unknown", FALSE, 0, 0, 1, FALSE, <<>>)

NegativeHost ==
    MemInfoHost(TRUE, <<MemFreeKey \o <<" ">> \o Chars2048,
                        MemTotalKey \o <<" ">> \o CharsMinus1030 \o <<" ">> \o CharsKB>>)

\* totals around every tier edge and formula floor
EngineTotalsMB ==
    {512, 1024, 1088, 2048, 2560, 2640, 4095, 4096, 8192, 16383, 16384, 65536}

EngineHosts ==
    {SysinfoHost(mb, 100) : mb \in EngineTotalsMB}
      \cup {UnknownHost, NegativeHost, MemInfoHost(FALSE, <<>>),
            MkHost("Windows", FALSE, 0, 0, 1, FALSE, <<>>),
            MkHost("Windows", TRUE, 805306368, 0, 1, FALSE, <<>>),
            MkHost("macOS", TRUE, 1073741824, 0, 1, FALSE, <<>>)}

RaceHosts == {UnknownHost, NegativeHost, SysinfoHost(8192, 0)}

\* what a platform can turn into while the process runs
LaterHosts ==
    RaceHosts \cup {MkHost("Windows", FALSE, 0, 0, 1, FALSE, <<>>),
                    MkHost("macOS", FALSE, 0, 0, 1, FALSE, <<>>)}

AvailReadingsMB == {0, 300}

\* ------------------------------------------- storage selection step: state
\* One row of the drive list model: the roles the delegate and
\* selectDefaultDrive() read (size and mountpoints are display only).
MkDrive(dev, desc, usb, scsi, ro, sys) ==
    [device |-> dev, description |-> desc, isUsb |-> usb, isScsi |-> scsi,
     isReadOnly |-> ro, isSystem |-> sys]

\* the drives a host can show
Drives ==
    {MkDrive("/dev/mmcblk0", "SD card A", FALSE, FALSE, FALSE, FALSE),
     MkDrive("/dev/mmcblk1", "SD card B", FALSE, FALSE, FALSE, FALSE),
     MkDrive("/dev/mmcblk2", "SD card locked", FALSE, FALSE, TRUE, FALSE),
     MkDrive("/dev/sdb", "USB stick", TRUE, TRUE, FALSE, FALSE),
     MkDrive("/dev/sdc", "SATA disk", FALSE, TRUE, FALSE, FALSE),
     MkDrive("/dev/sda", "System disk", FALSE, TRUE, FALSE, TRUE),
     MkDrive("/dev/sr0", "System disk locked", FALSE, TRUE, TRUE, TRUE)}

\* the largest drive list explored
MaxDrives == 3

\* dstitem.unselectable
unselectable_Never(d) == FALSE
unselectable(d) == d.isReadOnly

\* dstitem.shouldHide, for the state of the "Exclude system drives" box
shouldHide(d, checked) == d.isSystem /\ checked

\* dstMouseArea.enabled
MouseAreaEnabled(d) == ~unselectable(d)

\* selectDstItem(): the drive goes through systemDriveConfirm
NeedsConfirmation_Never(d) == FALSE
NeedsConfirmation(d) == d.isSystem

\* selectDefaultDrive(): the rows the loop passes over
IsSkipped_SystemOnly(d) == d.isSystem
IsSkipped(d) == d.isSystem \/ d.isReadOnly

\* selectDefaultDrive(): one iteration of the loop on row i (0-based)
NoIndexes == [sdIdx |-> -1, usbIdx |-> -1, otherIdx |-> -1]

ScanRow(acc, i, d) ==
    IF IsSkipped(d) THEN acc
    ELSE IF ~d.isUsb /\ ~d.isScsi /\ acc.sdIdx = -1 THEN [acc EXCEPT !.sdIdx = i]
    ELSE IF d.isUsb /\ acc.usbIdx = -1 THEN [acc EXCEPT !.usbIdx = i]
    ELSE IF acc.otherIdx = -1 THEN [acc EXCEPT !.otherIdx = i]
    ELSE acc

RECURSIVE ScanDrives(_, _, _)
ScanDrives(model, i, acc) ==
    IF i >= Len(model) THEN acc
    ELSE ScanDrives(model, i + 1, ScanRow(acc, i, model[i + 1]))

\* selectDefaultDrive(): the row chosen, -1 when there is none
chosen(model) ==
    IF Len(model) = 0 THEN -1
    ELSE LET a == ScanDrives(model, 0, NoIndexes)
         IN  IF a.sdIdx # -1 THEN a.sdIdx
             ELSE IF a.usbIdx # -1 THEN a.usbIdx
             ELSE a.otherIdx

\* dstlist.onCountChanged: the default selection is due
ShouldAutoSelect_AnyIndex(count, index) == count > 0
ShouldAutoSelect(count, index) == count > 0 /\ index = -1

\* dstlist.onItemSelected: the index names a row of the list
IsListedRow(model, index) == index >= 0 /\ index < Len(model)

\* conditionalNext(): the keyboard selection advances the wizard
MayAutoAdvance(model, index) ==
    ~(index >= 0 /\ index < Len(model) /\ model[index + 1].isSystem)

\* the drive list with row r (0-based) removed, with d inserted as row r
RemoveRow(model, r) ==
    [k \in 1..(Len(model) - 1) |-> IF k <= r THEN model[k] ELSE model[k + 1]]

InsertRow(model, r, d) ==
    [k \in 1..(Len(model) + 1) |->
        IF k <= r THEN model[k] ELSE IF k = r + 1 THEN d ELSE model[k - 1]]

\* ListView: currentIndex after a row was inserted, after a row was removed
\* (removing the current row leaves the row that took its place, or none)
IndexAfterInsert(index, r) == IF index >= r THEN index + 1 ELSE index

IndexAfterRemove(index, r, newCount) ==
    IF index > r THEN {index - 1}
    ELSE IF index = r THEN {-1, qMin(r, newCount - 1)}
    ELSE {index}

VARIABLES
    drives,               \* root.imageWriter.getDriveList(): the rows, in model order
    currentIndex,         \* dstlist.currentIndex (0-based, -1: none)
    filterChecked,        \* filterSystemDrives.checked
    disableWarnings,      \* root.wizardContainer.disableWarnings
    unfilterOpen,         \* confirmUnfilterPopup is open
    sysOpen,              \* systemDriveConfirm is open
    sysDevice,            \* systemDriveConfirm.device
    sysName,              \* systemDriveConfirm.driveName
    dst,                  \* the device last passed to imageWriter.setDst ("": none)
    selectedDeviceName,   \* root.selectedDeviceName
    selectedStorageName,  \* root.wizardContainer.selectedStorageName
    nextButtonEnabled,    \* root.nextButtonEnabled
    nextClicked,          \* root.nextClicked() was emitted by the last handler
    lastSetDst,           \* <<the last imageWriter.setDst call>>: device, calling
                          \* handler, device the open system dialog was opened for
    openedFor,            \* the device the open systemDriveConfirm was opened for
    defaultRun            \* <<chosen, currentIndex seen>> when the last handler
                          \* ran selectDefaultDrive(), <<>> otherwise

uiVars == <<drives, currentIndex, filterChecked, disableWarnings, unfilterOpen,
            sysOpen, sysDevice, sysName, dst, selectedDeviceName,
            selectedStorageName, nextButtonEnabled, nextClicked, lastSetDst,
            openedFor, defaultRun>>

\* the step as constructed: nothing selected, filter on, dialogs closed
StepConstructed ==
    /\ currentIndex = -1
    /\ filterChecked = TRUE
    /\ unfilterOpen = FALSE
    /\ sysOpen = FALSE
    /\ sysDevice = ""
    /\ sysName = ""
    /\ dst = ""
    /\ selectedDeviceName = ""
    /\ selectedStorageName = ""
    /\ nextButtonEnabled = FALSE
    /\ nextClicked = FALSE
    /\ lastSetDst = <<>>
    /\ openedFor = ""
    /\ defaultRun = <<>>

\* the step before any drive was listed
StepIdle ==
    /\ drives = <<>>
    /\ disableWarnings = FALSE
    /\ StepConstructed

\* -------------------------------------------------------------------- state
VARIABLES
    host,                 \* what the platform answers now
    availReading,         \* what getPlatformAvailableMemoryMB() would return now
    cachedTotalMemoryMB,  \* SystemMemoryManager::_cachedTotalMemoryMB
    pc,                   \* per thread: "idle" or the line it is about to run
    op,                   \* per thread: the public method it is in
    reg,                  \* per thread: the value of the cache field it holds
    hit,                  \* per thread: its call found the cache populated
    calls,                \* calls begun
    completed,            \* calls returned
    probeCount,           \* invocations of getPlatformTotalMemoryMB()
    availProbeCount,      \* invocations of getPlatformAvailableMemoryMB()
    firstProbe,           \* <<result of the first probe invocation>>
    firstProber,          \* the thread that made the first probe invocation (0: none yet)
    cacheWrites,          \* stores to _cachedTotalMemoryMB so far
    totalsReturned,       \* values getTotalMemoryMB() returned
    availReturned,        \* [ret, total] of getAvailableMemoryMB() calls
    calcReturned,         \* [total, config] of calculateSyncConfiguration() calls
    calcCount,            \* calculateSyncConfiguration() calls returned
    servedStale,          \* a call was served a total the probe no longer reports
    probeOut              \* <<outcome of a stand-alone probe run>>

vars == <<host, availReading, cachedTotalMemoryMB, pc, op, reg, hit, calls, completed,
          probeCount, availProbeCount, firstProbe, firstProber, cacheWrites,
          totalsReturned,
          availReturned, calcReturned, calcCount, servedStale, probeOut, uiVars>>

envVars == <<host, availReading>>
histVars == <<totalsReturned, availReturned, calcReturned, calcCount, servedStale,
              availProbeCount, completed>>

Methods == {"getTotalMemoryMB", "getAvailableMemoryMB", "calculateSyncConfiguration"}

\* SystemMemoryManager::instance(): the singleton as constructed, cache absent
ManagerConstructed ==
    /\ cachedTotalMemoryMB = -1
    /\ pc = [t \in Threads |-> "idle"]
    /\ op = [t \in Threads |-> "getTotalMemoryMB"]
    /\ reg = [t \in Threads |-> <<>>]
    /\ hit = [t \in Threads |-> FALSE]
    /\ calls = 0
    /\ completed = 0
    /\ probeCount = 0
    /\ availProbeCount = 0
    /\ firstProbe = <<>>
    /\ firstProber = 0
    /\ cacheWrites = 0
    /\ totalsReturned = {}
    /\ availReturned = {}
    /\ calcReturned = {}
    /\ calcCount = 0
    /\ servedStale = FALSE
    /\ probeOut = <<>>

InitManager ==
    /\ ManagerConstructed
    /\ StepIdle

Init ==
    /\ host \in RaceHosts
    /\ availReading \in AvailReadingsMB
    /\ InitManager

InitSeq ==
    /\ host \in EngineHosts
    /\ availReading \in AvailReadingsMB
    /\ InitManager

\* ------------------------------------------------------------------ actions
\* The platform's answers change while the process runs; the #ifdef branch
\* compiled in stays what it is.
EnvChangeIn(hosts) ==
    /\ \E h \in hosts, a \in AvailReadingsMB :
          /\ h.platform = host.platform
          /\ <<h, a>> # <<host, availReading>>
          /\ host' = h
          /\ availReading' = a
    /\ UNCHANGED <<cachedTotalMemoryMB, pc, op, reg, hit, calls, probeCount,
                   firstProbe, firstProber, cacheWrites, histVars, probeOut,
                   uiVars>>

EnvChange == EnvChangeIn(LaterHosts)

\* A thread calls one of the public methods; each of them starts by entering
\* getTotalMemoryMB().
Call(t, m) ==
    /\ pc[t] = "idle"
    /\ calls < MaxCalls
    /\ pc' = [pc EXCEPT ![t] = "L35"]
    /\ op' = [op EXCEPT ![t] = m]
    /\ reg' = [reg EXCEPT ![t] = <<>>]
    /\ hit' = [hit EXCEPT ![t] = FALSE]
    /\ calls' = calls + 1
    /\ UNCHANGED <<envVars, cachedTotalMemoryMB, probeCount, firstProbe, firstProber,
                   cacheWrites, histVars, probeOut,
                   uiVars>>

\* the same call made while no other call is in progress
CallAlone(t, m) ==
    /\ \A u \in Threads : pc[u] = "idle"
    /\ Call(t, m)

\* line 35: if (_cachedTotalMemoryMB == -1)
CheckCache(t) ==
    /\ pc[t] = "L35"
    /\ pc' = [pc EXCEPT ![t] =
                IF CacheIsAbsent(cachedTotalMemoryMB) THEN "L36" ELSE "L43"]
    /\ hit' = [hit EXCEPT ![t] = ~CacheIsAbsent(cachedTotalMemoryMB)]
    /\ reg' = [reg EXCEPT ![t] = <<cachedTotalMemoryMB>>]
    /\ UNCHANGED <<envVars, cachedTotalMemoryMB, op, calls, probeCount,
                   firstProbe, firstProber, cacheWrites, histVars, probeOut,
                   uiVars>>

\* getPlatformTotalMemoryMB() returns r to line 36 in thread t; first says
\* that this invocation was the first one of the process
ProbeReturns(t, r, first) ==
    /\ reg' = [reg EXCEPT ![t] = <<r>>]
    /\ firstProbe' = IF first /\ firstProbe = <<>> THEN <<r>> ELSE firstProbe
    /\ pc' = [pc EXCEPT ![t] = "L36s"]

\* the Linux probe goes on to /proc/meminfo
NeedsTextSource(h) == h.platform = "Linux" /\ ~SysinfoSucceeded(h)

\* line 36, right-hand side: getPlatformTotalMemoryMB() is entered and makes
\* its system query (GlobalMemoryStatusEx, sysctlbyname, sysinfo at line 172);
\* on Linux a failed sysinfo leads on to the text source
Probe(t) ==
    /\ pc[t] = "L36"
    /\ probeCount' = probeCount + 1
    /\ firstProber' = IF probeCount = 0 THEN t ELSE firstProber
    /\ IF NeedsTextSource(host)
       THEN /\ pc' = [pc EXCEPT ![t] = "L179"]
            /\ UNCHANGED <<reg, firstProbe>>
       ELSE ProbeReturns(t, getPlatformTotalMemoryMB(host), probeCount = 0)
    /\ UNCHANGED <<envVars, cachedTotalMemoryMB, op, hit, calls, cacheWrites,
                   histVars, probeOut,
                   uiVars>>

\* line 179: meminfo.open(...) on the platform as it is by now
ProbeOpen(t) ==
    /\ pc[t] = "L179"
    /\ IF host.openOk
       THEN /\ pc' = [pc EXCEPT ![t] = "L182"]
            /\ UNCHANGED <<reg, firstProbe>>
       ELSE ProbeReturns(t, ProbeOutcome(0, FALSE, 0).ret, firstProber = t)
    /\ UNCHANGED <<envVars, cachedTotalMemoryMB, op, hit, calls, probeCount,
                   firstProber, cacheWrites, histVars, probeOut,
                   uiVars>>

\* lines 180-198: the opened file is read (its few lines reach the stream's
\* buffer in one read of the file) and scanned for the MemTotal record
ProbeRead(t) ==
    /\ pc[t] = "L182"
    /\ ProbeReturns(t, ScanMemInfo(host.meminfo, 1).ret, firstProber = t)
    /\ UNCHANGED <<envVars, cachedTotalMemoryMB, op, hit, calls, probeCount,
                   firstProber, cacheWrites, histVars, probeOut,
                   uiVars>>

\* line 36, the assignment: the probe's result goes to the cache
StoreDetected(t) ==
    /\ pc[t] = "L36s"
    /\ cachedTotalMemoryMB' = reg[t][1]
    /\ cacheWrites' = cacheWrites + 1
    /\ pc' = [pc EXCEPT ![t] = "L37"]
    /\ UNCHANGED <<envVars, op, reg, hit, calls, probeCount, firstProbe,
                   firstProber, histVars,
                   probeOut,
                   uiVars>>

\* What a read of _cachedTotalMemoryMB by thread t can yield: the field is a
\* plain qint64 shared without synchronisation, so the thread gets what is in
\* memory now or the value it still holds from its last access to the field.
ReadCache(t) == {cachedTotalMemoryMB} \cup {reg[t][i] : i \in 1..Len(reg[t])}

\* line 37: if (_cachedTotalMemoryMB <= 0)
CheckDetected(t) ==
    /\ pc[t] = "L37"
    /\ \E v \in ReadCache(t) :
          /\ pc' = [pc EXCEPT ![t] = IF DetectionFailed(v) THEN "L39" ELSE "L43"]
          /\ reg' = [reg EXCEPT ![t] = <<v>>]
    /\ UNCHANGED <<envVars, cachedTotalMemoryMB, op, hit, calls, probeCount,
                   firstProbe, firstProber, cacheWrites, histVars, probeOut,
                   uiVars>>

\* line 39: _cachedTotalMemoryMB = 4096
StoreAssumed(t) ==
    /\ pc[t] = "L39"
    /\ cachedTotalMemoryMB' = AssumedTotalMB
    /\ cacheWrites' = cacheWrites + 1
    /\ reg' = [reg EXCEPT ![t] = <<AssumedTotalMB>>]
    /\ pc' = [pc EXCEPT ![t] = "L43"]
    /\ UNCHANGED <<envVars, op, hit, calls, probeCount, firstProbe, firstProber,
                   histVars, probeOut,
                   uiVars>>

\* line 43: return _cachedTotalMemoryMB, and the rest of the public method the
\* thread is in (lines 50 and 55-88 touch no shared state)
Return(t) ==
    /\ pc[t] = "L43"
    /\ \E v \in ReadCache(t) :
          /\ totalsReturned' = totalsReturned \cup {v}
          /\ servedStale' = (servedStale \/
                               (hit[t] /\ getPlatformTotalMemoryMB(host) # v
                                  /\ getPlatformTotalMemoryMB(host) > 0))
          /\ IF op[t] = "getAvailableMemoryMB"
             THEN LET r == AvailableFromTotal(v, availReading)
                  IN  /\ availReturned' = availReturned \cup {[ret |-> r.ret, total |-> v]}
                      /\ availProbeCount' = availProbeCount + (IF r.queried THEN 1 ELSE 0)
             ELSE UNCHANGED <<availReturned, availProbeCount>>
          /\ IF op[t] = "calculateSyncConfiguration"
             THEN /\ calcReturned' = calcReturned \cup
                        {[total |-> v, config |-> SyncConfigurationFor(v)]}
                  /\ calcCount' = calcCount + 1
             ELSE UNCHANGED <<calcReturned, calcCount>>
    /\ completed' = completed + 1
    /\ pc' = [pc EXCEPT ![t] = "idle"]
    /\ UNCHANGED <<envVars, cachedTotalMemoryMB, op, reg, hit, calls, probeCount,
                   firstProbe, firstProber, cacheWrites, probeOut,
                   uiVars>>

Step(t) ==
    \/ CheckCache(t)
    \/ Probe(t)
    \/ ProbeOpen(t)
    \/ ProbeRead(t)
    \/ StoreDetected(t)
    \/ CheckDetected(t)
    \/ StoreAssumed(t)
    \/ Return(t)

\* callers on several threads, calls overlapping freely
Next ==
    \/ EnvChange
    \/ \E t \in Threads, m \in Methods : Call(t, m)
    \/ \E t \in Threads : Step(t)

Spec == Init /\ [][Next]_vars

\* callers whose calls never overlap
NextSeq ==
    \/ EnvChange
    \/ \E t \in Threads, m \in Methods : CallAlone(t, m)
    \/ \E t \in Threads : Step(t)

SeqSpec == InitSeq /\ [][NextSeq]_vars

\* ------------------------------------------------- the probe on its own
\* lines of /proc/meminfo as stored in the file: a key, whitespace, a field,
\* a unit; two lines with the rarer whitespace characters, one of them with a
\* carriage return between the number and the unit
MemInfoLines ==
    {key \o sep \o field \o unit :
        key \in {MemTotalKey, MemFreeKey},
        sep \in {<<>>, <<" ">>, <<" ", "\t">>},
        field \in {<<>>, Chars5000, CharsMinus1030, CharsKB},
        unit \in {<<>>, <<" ">> \o CharsKB}}
      \cup {<<" ">> \o MemTotalKey \o <<" ">> \o Chars5000,
            MemTotalKey \o <<"\f", VerticalTab>> \o Chars5000 \o <<"\r">> \o CharsKB,
            MemTotalKey \o <<"\r", "\f", VerticalTab>> \o Chars5000}

MemInfoFiles == UNION {[1..n -> MemInfoLines] : n \in 0..MaxLines}

ProbeHosts ==
    {MemInfoHost(TRUE, f) : f \in MemInfoFiles}
      \cup {MemInfoHost(FALSE, <<l>>) : l \in MemInfoLines}
      \cup {MkHost("Linux", TRUE, 0, ram, 4096, TRUE, <<l>>) :
               ram \in {0, 255, 256, 524388}, l \in MemInfoLines}
      \cup {MkHost(p, ok, bytes, 0, 1, TRUE, <<l>>) :
               p \in {"Windows", "macOS", "Unknown"}, ok \in BOOLEAN,
               bytes \in {0, 1048575, 805306368},
               l \in {MemTotalKey \o <<" ">> \o Chars5000}}

ProbeInit ==
    /\ host \in ProbeHosts
    /\ availReading = 0
    /\ InitManager

\* getPlatformTotalMemoryMB() called on its own
RunProbe ==
    /\ probeOut = <<>>
    /\ probeOut' = <<RunTotalProbe(host)>>
    /\ UNCHANGED <<envVars, cachedTotalMemoryMB, pc, op, reg, hit, calls,
                   probeCount, firstProbe, firstProber, cacheWrites, histVars,
                   uiVars>>

ProbeNext == RunProbe

ProbeSpec == ProbeInit /\ [][ProbeNext]_vars

\* ------------------------------------------------- the policy on its own
\* hosts of every total from 1 MB up, a few large ones, and failing probes
PolicyHosts ==
    {SysinfoHost(mb, 0) : mb \in (1..MaxTotalMB) \cup {1048576}}
      \cup {UnknownHost, NegativeHost, MemInfoHost(FALSE, <<>>)}

PolicyInit ==
    /\ host \in PolicyHosts
    /\ availReading = 0
    /\ InitManager

\* the image writer asks for the configuration once
PolicyCall ==
    /\ calls = 0
    /\ CallAlone(1, "calculateSyncConfiguration")

PolicyNext ==
    \/ PolicyCall
    \/ Step(1)

PolicySpec == PolicyInit /\ [][PolicyNext]_vars

\* --------------------------------------------- the storage selection step
Rows == 0..(Len(drives) - 1)
ListedDrives == {drives[k] : k \in 1..Len(drives)}
DialogOpen == unfilterOpen \/ sysOpen

selectionVars == <<dst, selectedDeviceName, selectedStorageName,
                   nextButtonEnabled, lastSetDst>>
sysDialogVars == <<sysOpen, sysDevice, sysName, openedFor>>

\* imageWriter.setDst(device) followed by the three assignments that go with it
SetDestination(device, description, by) ==
    /\ dst' = device
    /\ lastSetDst' = <<[device |-> device, by |-> by, dialogFor |-> openedFor]>>
    /\ selectedDeviceName' = description
    /\ selectedStorageName' = description
    /\ nextButtonEnabled' = TRUE

\* selectDstItem(dstitem)
selectDstItem(d) ==
    IF unselectable(d) THEN
        UNCHANGED <<selectionVars, sysDialogVars>>
    ELSE IF NeedsConfirmation(d) THEN
        /\ sysName' = d.description
        /\ sysDevice' = d.device
        /\ sysOpen' = TRUE
        /\ openedFor' = d.device
        /\ UNCHANGED selectionVars
    ELSE
        /\ SetDestination(d.device, d.description, "selectDstItem")
        /\ UNCHANGED sysDialogVars

\* dstitem.selectDrive()
selectDrive(d) ==
    IF ~unselectable(d) THEN selectDstItem(d)
    ELSE UNCHANGED <<selectionVars, sysDialogVars>>

\* selectDefaultDrive() on the list model, with the view's index at `index`
selectDefaultDrive(model, index) ==
    LET c == chosen(model)
    IN  /\ defaultRun' = <<c, index>>
        /\ IF c = -1 THEN
               /\ currentIndex' = index
               /\ UNCHANGED selectionVars
           ELSE
               /\ currentIndex' = c
               /\ SetDestination(model[c + 1].device, model[c + 1].description,
                                 "selectDefaultDrive")

\* dstlist.onCountChanged
onCountChanged(model, index) ==
    IF ShouldAutoSelect(Len(model), index) THEN selectDefaultDrive(model, index)
    ELSE /\ currentIndex' = index
         /\ defaultRun' = <<>>
         /\ UNCHANGED selectionVars

managerVars == <<host, availReading, cachedTotalMemoryMB, pc, op, reg, hit, calls,
                 completed, probeCount, availProbeCount, firstProbe, firstProber,
                 cacheWrites,
                 totalsReturned, availReturned, calcReturned, calcCount,
                 servedStale, probeOut>>

\* the backend lists a drive: the model inserts a row and the count changes
DriveInserted(d, r) ==
    /\ Len(drives) < MaxDrives
    /\ d \notin ListedDrives
    /\ r \in 0..Len(drives)
    /\ drives' = InsertRow(drives, r, d)
    /\ onCountChanged(drives', IndexAfterInsert(currentIndex, r))
    /\ nextClicked' = FALSE
    /\ UNCHANGED <<filterChecked, disableWarnings, unfilterOpen, sysDialogVars,
                   managerVars>>

\* a drive goes away: the model removes its row and the count changes
DriveRemoved(r) ==
    /\ r \in Rows
    /\ drives' = RemoveRow(drives, r)
    /\ \E index \in IndexAfterRemove(currentIndex, r, Len(drives) - 1) :
           onCountChanged(drives', index)
    /\ nextClicked' = FALSE
    /\ UNCHANGED <<filterChecked, disableWarnings, unfilterOpen, sysDialogVars,
                   managerVars>>

\* dstMouseArea.onClicked on row i
Click(i) ==
    /\ i \in Rows
    /\ ~DialogOpen
    /\ ~shouldHide(drives[i + 1], filterChecked)
    /\ MouseAreaEnabled(drives[i + 1])
    /\ IF ~unselectable(drives[i + 1]) THEN
           /\ currentIndex' = i
           /\ selectDstItem(drives[i + 1])
       ELSE UNCHANGED <<currentIndex, selectionVars, sysDialogVars>>
    /\ nextClicked' = FALSE
    /\ defaultRun' = <<>>
    /\ UNCHANGED <<drives, filterChecked, disableWarnings, unfilterOpen, managerVars>>

\* arrow keys in the list: the highlight moves to row i
KeyMove(i) ==
    /\ i \in Rows
    /\ ~DialogOpen
    /\ i # currentIndex
    /\ ~shouldHide(drives[i + 1], filterChecked)
    /\ currentIndex' = i
    /\ nextClicked' = FALSE
    /\ defaultRun' = <<>>
    /\ UNCHANGED <<drives, filterChecked, disableWarnings, unfilterOpen,
                   selectionVars, sysDialogVars, managerVars>>

\* Enter or Space in the list: itemSelected(currentIndex, currentItem), then
\* the keyboard auto-advance through nextFunction; with no current row the
\* handler selects nothing and conditionalNext() still emits nextClicked
KeySelect ==
    /\ ~DialogOpen
    /\ IF IsListedRow(drives, currentIndex)
           THEN selectDrive(drives[currentIndex + 1])
           ELSE UNCHANGED <<selectionVars, sysDialogVars>>
    /\ nextClicked' = MayAutoAdvance(drives, currentIndex)
    /\ defaultRun' = <<>>
    /\ UNCHANGED <<drives, currentIndex, filterChecked, disableWarnings,
                   unfilterOpen, managerVars>>

\* filterSystemDrives.onToggled
ToggleFilter ==
    /\ ~DialogOpen
    /\ filterChecked' = ~filterChecked
    /\ unfilterOpen' = (~filterChecked' /\ ~disableWarnings)
    /\ nextClicked' = FALSE
    /\ defaultRun' = <<>>
    /\ UNCHANGED <<drives, currentIndex, disableWarnings, selectionVars,
                   sysDialogVars, managerVars>>

\* confirmUnfilterPopup.onConfirmed, onCancelled
UnfilterConfirmed ==
    /\ unfilterOpen
    /\ unfilterOpen' = FALSE
    /\ nextClicked' = FALSE
    /\ defaultRun' = <<>>
    /\ UNCHANGED <<drives, currentIndex, filterChecked, disableWarnings,
                   selectionVars, sysDialogVars, managerVars>>

UnfilterCancelled ==
    /\ unfilterOpen
    /\ unfilterOpen' = FALSE
    /\ filterChecked' = TRUE
    /\ nextClicked' = FALSE
    /\ defaultRun' = <<>>
    /\ UNCHANGED <<drives, currentIndex, disableWarnings, selectionVars,
                   sysDialogVars, managerVars>>

\* systemDriveConfirm.onConfirmed
SystemConfirmed ==
    /\ sysOpen
    /\ SetDestination(sysDevice, sysName, "systemDriveConfirm.onConfirmed")
    /\ filterChecked' = TRUE
    /\ nextClicked' = TRUE
    /\ sysOpen' = FALSE
    /\ openedFor' = ""
    /\ defaultRun' = <<>>
    /\ UNCHANGED <<drives, currentIndex, disableWarnings, unfilterOpen, sysDevice,
                   sysName, managerVars>>

\* systemDriveConfirm.onCancelled
SystemCancelled ==
    /\ sysOpen
    /\ sysOpen' = FALSE
    /\ openedFor' = ""
    /\ nextClicked' = FALSE
    /\ defaultRun' = <<>>
    /\ UNCHANGED <<drives, currentIndex, filterChecked, disableWarnings,
                   unfilterOpen, sysDevice, sysName, selectionVars, managerVars>>

UiInit ==
    /\ host = UnknownHost
    /\ availReading = 0
    /\ ManagerConstructed
    /\ drives = <<>>
    /\ disableWarnings \in BOOLEAN
    /\ StepConstructed

UiNext ==
    \/ \E d \in Drives, r \in 0..MaxDrives : DriveInserted(d, r)
    \/ \E r \in 0..(MaxDrives - 1) : DriveRemoved(r)
    \/ \E i \in 0..(MaxDrives - 1) : Click(i)
    \/ \E i \in 0..(MaxDrives - 1) : KeyMove(i)
    \/ KeySelect
    \/ ToggleFilter
    \/ UnfilterConfirmed
    \/ UnfilterCancelled
    \/ SystemConfirmed
    \/ SystemCancelled

UiSpec == UiInit /\ [][UiNext]_vars

\* =================================================================== claims
Configs == {r.config : r \in calcReturned}

\* the total the manager settles on for a probe result
SettledTotal(probed) == IF probed <= 0 THEN 4096 ELSE probed

\* C1: whatever the probe reported (the fallback path included), every
\* configuration calculateSyncConfiguration() returned has its
\* syncIntervalBytes within [MIN_SYNC_INTERVAL_BYTES, MAX_SYNC_INTERVAL_BYTES].
C1_BytesWithinBounds ==
    \A r \in calcReturned :
        /\ MIN_SYNC_INTERVAL_BYTES <= r.config.syncIntervalBytes
        /\ r.config.syncIntervalBytes <= MAX_SYNC_INTERVAL_BYTES

C1_Witness ==
    /\ firstProbe # <<>>
    /\ firstProbe[1] < 0
    /\ calcCount = 1
    /\ \E r \in calcReturned : r.config.syncIntervalBytes = 51 * 1024 * 1024

\* C2: the platform probe is invoked at most once in the life of the process,
\* however many calls are made and however concurrent first calls interleave.
C2_ProbedAtMostOnce == probeCount <= 1

\* C3: every call of getTotalMemoryMB() returns one and the same value, and
\* that value is positive: never the absent marker, never the non-positive
\* probe result stored before the fallback.
C3_OnePositiveTotal ==
    /\ \A v \in totalsReturned : v > 0
    /\ Cardinality(totalsReturned) <= 1

\* C4: when the probe reports T <= 0, getTotalMemoryMB() returns 4096 to
\* callers that come one after the other, and calculateSyncConfiguration()
\* returns the configuration of a 4096 MB host: 51 MB, 5000 ms, Medium tier.
C4_FailureIs4096 ==
    (firstProbe # <<>> /\ firstProbe[1] <= 0) =>
        /\ totalsReturned \subseteq {4096}
        /\ \A a \in availReturned : a.ret = 4096
        /\ \A r \in calcReturned :
              r.config = [syncIntervalBytes |-> 53477376,
                          syncIntervalMs |-> 5000,
                          memoryTier |-> <<"Medium memory (", 4096, "MB)">>]

C4_Witness ==
    /\ firstProbe # <<>>
    /\ firstProbe[1] <= 0
    /\ 4096 \in totalsReturned
    /\ calcCount >= 1
    /\ availReturned # {}

\* C5: the tier is Low below LOW_MEMORY_THRESHOLD_MB, Medium from it up to
\* but not including HIGH_MEMORY_THRESHOLD_MB, High from there on; so the
\* thresholds themselves are Medium and High, the totals just below them Low
\* and Medium, and every total has exactly one tier.
TierName(r) == r.config.memoryTier[1]

C5_TierEdges ==
    \A r \in calcReturned :
        /\ TierName(r) \in {"Low memory (", "Medium memory (", "High memory ("}
        /\ (TierName(r) = "Low memory (") <=> (r.total < LOW_MEMORY_THRESHOLD_MB)
        /\ (TierName(r) = "Medium memory (") <=>
              (LOW_MEMORY_THRESHOLD_MB <= r.total /\ r.total < HIGH_MEMORY_THRESHOLD_MB)
        /\ (TierName(r) = "High memory (") <=> (HIGH_MEMORY_THRESHOLD_MB <= r.total)
        /\ (r.total = LOW_MEMORY_THRESHOLD_MB - 1) => (TierName(r) = "Low memory (")
        /\ (r.total = LOW_MEMORY_THRESHOLD_MB) => (TierName(r) = "Medium memory (")
        /\ (r.total = HIGH_MEMORY_THRESHOLD_MB - 1) => (TierName(r) = "Medium memory (")
        /\ (r.total = HIGH_MEMORY_THRESHOLD_MB) => (TierName(r) = "High memory (")
        /\ r.config.memoryTier[2] = r.total

C5_Witness ==
    \E r \in calcReturned :
        /\ r.total = LOW_MEMORY_THRESHOLD_MB
        /\ firstProbe = <<LOW_MEMORY_THRESHOLD_MB>>
        /\ TierName(r) = "Medium memory ("

\* C6: the configuration equals the reference table: Low max(16, T div 64) MB
\* and 3000 ms, Medium max(32, T div 80) MB and 5000 ms, High
\* min(256, max(64, T div 64)) MB and 7000 ms, the MB value times 1024 * 1024
\* clamped to the byte bounds; and the four worked examples come out as
\* 33,554,432 / 106,954,752 / 268,435,456 / 16,777,216 bytes.
TableMB(T) ==
    IF T < LOW_MEMORY_THRESHOLD_MB
    THEN (IF T \div 64 > 16 THEN T \div 64 ELSE 16)
    ELSE IF T < HIGH_MEMORY_THRESHOLD_MB
         THEN (IF T \div 80 > 32 THEN T \div 80 ELSE 32)
         ELSE (IF T \div 64 < 64 THEN 64
               ELSE IF T \div 64 > 256 THEN 256 ELSE T \div 64)

TableMs(T) ==
    IF T < LOW_MEMORY_THRESHOLD_MB THEN 3000
    ELSE IF T < HIGH_MEMORY_THRESHOLD_MB THEN 5000 ELSE 7000

TableBytes(T) ==
    LET b == TableMB(T) * 1048576
    IN  IF b < MIN_SYNC_INTERVAL_BYTES THEN MIN_SYNC_INTERVAL_BYTES
        ELSE IF b > MAX_SYNC_INTERVAL_BYTES THEN MAX_SYNC_INTERVAL_BYTES ELSE b

C6_ReferenceTable ==
    \A r \in calcReturned :
        /\ r.config.syncIntervalBytes = TableBytes(r.total)
        /\ r.config.syncIntervalMs = TableMs(r.total)
        /\ (r.total = 2048) =>
              (r.config.syncIntervalBytes = 33554432 /\ r.config.syncIntervalMs = 3000)
        /\ (r.total = 8192) =>
              (r.config.syncIntervalBytes = 106954752 /\ r.config.syncIntervalMs = 5000)
        /\ (r.total = 65536) =>
              (r.config.syncIntervalBytes = 268435456 /\ r.config.syncIntervalMs = 7000)
        /\ (r.total = 512) =>
              (r.config.syncIntervalBytes = 16777216 /\ r.config.syncIntervalMs = 3000)

C6_Witness ==
    \E r \in calcReturned :
        /\ r.total = 8192
        /\ r.config.syncIntervalBytes = 106954752
        /\ r.config.syncIntervalMs = 5000

\* C7: calls of calculateSyncConfiguration() made one after the other return
\* the same configuration, whatever the probe would report by then.
C7_SameConfiguration == Cardinality(Configs) <= 1

C7_Witness ==
    /\ calcCount = 2
    /\ completed = 2
    /\ servedStale
    /\ Cardinality(Configs) = 1

\* C8: the cache starts absent, is written exactly once (during the first
\* call, on the detected and on the fallback path alike), holds a positive
\* total once that call has returned, and from then on no operation changes
\* it or probes again.
C8_CacheFrozen ==
    (completed >= 1) =>
        /\ cachedTotalMemoryMB' = cachedTotalMemoryMB
        /\ probeCount' = probeCount

C8_CacheState ==
    /\ (calls = 0) => (cachedTotalMemoryMB = -1 /\ cacheWrites = 0)
    /\ cacheWrites <= 1
    /\ (completed >= 1) =>
          (cacheWrites = 1 /\ probeCount = 1 /\ cachedTotalMemoryMB > 0)

C8_WrittenOnce == [](C8_CacheState) /\ [][C8_CacheFrozen]_vars

\* C9: available memory plays no part: getAvailableMemoryMB() returns the
\* total getTotalMemoryMB() gave it and never asks the platform for available
\* memory, and every configuration is the one of the first probe's total,
\* whatever the available-memory reading was.
C9_AvailableUnused ==
    /\ availProbeCount = 0
    /\ \A a \in availReturned : a.ret = a.total
    /\ \A a \in availReturned : a.ret = SettledTotal(firstProbe[1])
    /\ \A r \in calcReturned : r.total = SettledTotal(firstProbe[1])

C9_Witness ==
    /\ availReading > 0
    /\ calcCount >= 1
    /\ \E a \in availReturned : a.ret # availReading
    /\ \A t \in Threads : pc[t] = "idle"

\* C10: on Linux a successful sysinfo decides alone and the text source is
\* not read; when sysinfo fails the result is the first MemTotal record's
\* number divided by 1024 (truncating) if that record has a second field that
\* parses as a number, and 0 otherwise (no file, no record, one field, no
\* number); on an unknown platform the result is 0.
MemTotalRecords(lines) ==
    {i \in 1..Len(lines) : startsWith(readLine(lines[i]), MemTotalKey)}

FirstMemTotal(lines) ==
    CHOOSE i \in MemTotalRecords(lines) : \A j \in MemTotalRecords(lines) : i <= j

ExpectedFromText(h) ==
    IF ~h.openOk \/ MemTotalRecords(h.meminfo) = {} THEN 0
    ELSE LET fields == split(readLine(h.meminfo[FirstMemTotal(h.meminfo)]))
         IN  IF Len(fields) < 2 THEN 0
             ELSE IF ~toLongLong(fields[2]).ok THEN 0
             ELSE LET kb == toLongLong(fields[2]).value
                  IN  IF kb >= 0 THEN kb \div 1024 ELSE -((-kb) \div 1024)

C10_ProbeSentinel ==
    (probeOut # <<>>) =>
        LET out == probeOut[1]
        IN  /\ (host.platform = "Unknown") => (out.ret = 0 /\ ~out.opened)
            /\ (host.platform = "Linux" /\ host.apiOk) =>
                  (~out.opened /\ out.linesRead = 0 /\ out.ret >= 0)
            /\ (host.platform = "Linux" /\ ~host.apiOk) =>
                  (out.ret = ExpectedFromText(host) /\ out.opened = host.openOk)

C10_Witness ==
    /\ probeOut # <<>>
    /\ host.platform = "Linux"
    /\ ~host.apiOk
    /\ host.openOk
    /\ Len(host.meminfo) = 2
    /\ MemTotalRecords(host.meminfo) = {2}
    /\ probeOut[1].ret = 4

\* C13: syncIntervalBytes never decreases as total memory grows: for every
\* total T2 a call was answered for and every smaller total T1 (the one just
\* below T2 and the totals around the tier edges), the byte interval for T1
\* is no larger than the one returned for T2.
LowerTotals(T2) == {T1 \in EngineTotalsMB \cup {T2 - 1} : 1 <= T1 /\ T1 <= T2}

C13_BytesMonotonic ==
    \A r \in calcReturned :
        \A T1 \in LowerTotals(r.total) :
            SyncConfigurationFor(T1).syncIntervalBytes <= r.config.syncIntervalBytes

\* the flags of the drive behind a device name
IsSystemDevice(dev) == \E d \in Drives : d.device = dev /\ d.isSystem
IsReadOnlyDevice(dev) == \E d \in Drives : d.device = dev /\ d.isReadOnly

\* C11: imageWriter.setDst is called with a system drive's device only by
\* systemDriveConfirm.onConfirmed, with the dialog open for that very drive;
\* clicks, keyboard selections, the default selection and cancelled dialogs
\* never make a system drive the destination.
C11_SystemOnlyAfterConfirm ==
    \A k \in 1..Len(lastSetDst) :
        IsSystemDevice(lastSetDst[k].device) =>
            /\ lastSetDst[k].by = "systemDriveConfirm.onConfirmed"
            /\ lastSetDst[k].dialogFor = lastSetDst[k].device

\* a confirmed system drive is the destination
C11_Witness ==
    /\ lastSetDst # <<>>
    /\ IsSystemDevice(dst)
    /\ lastSetDst[1].by = "systemDriveConfirm.onConfirmed"
    /\ lastSetDst[1].dialogFor = dst
    /\ selectedStorageName = "System disk"

\* the rows a default selection may fall on, and the row the priority order
\* (SD card, then USB, then anything else, first in model order) asks for
EligibleRows(model) ==
    {i \in 0..(Len(model) - 1) : ~model[i + 1].isSystem /\ ~model[i + 1].isReadOnly}

FirstRow(rows) == CHOOSE i \in rows : \A j \in rows : i <= j

PriorityRow(model) ==
    LET sd == {i \in EligibleRows(model) :
                  ~model[i + 1].isUsb /\ ~model[i + 1].isScsi}
        usb == {i \in EligibleRows(model) : model[i + 1].isUsb}
        other == (EligibleRows(model) \ sd) \ usb
    IN  IF sd # {} THEN FirstRow(sd)
        ELSE IF usb # {} THEN FirstRow(usb)
        ELSE IF other # {} THEN FirstRow(other)
        ELSE -1

\* C12: every run of selectDefaultDrive() happens on a change of the list
\* count to a positive value with currentIndex at -1; it picks the first
\* eligible SD card, else the first eligible USB device, else the first other
\* eligible drive, never a system or read-only one, and makes that row current
\* and its device the destination; with no eligible drive it leaves the
\* destination, currentIndex and the selected names as they were.
C12_DefaultSelection ==
    [][defaultRun' # <<>> =>
          /\ Len(drives') # Len(drives)
          /\ Len(drives') > 0
          /\ defaultRun'[2] = -1
          /\ defaultRun'[1] = PriorityRow(drives')
          /\ defaultRun'[1] # -1 =>
                 /\ ~drives'[defaultRun'[1] + 1].isSystem
                 /\ ~drives'[defaultRun'[1] + 1].isReadOnly
                 /\ currentIndex' = defaultRun'[1]
                 /\ dst' = drives'[defaultRun'[1] + 1].device
                 /\ selectedStorageName' = drives'[defaultRun'[1] + 1].description
                 /\ lastSetDst'[1].by = "selectDefaultDrive"
          /\ defaultRun'[1] = -1 =>
                 /\ currentIndex' = -1
                 /\ UNCHANGED <<dst, lastSetDst, selectedDeviceName,
                                selectedStorageName, nextButtonEnabled>>
    ]_vars

\* the default selection took a USB device listed after an eligible drive
\* that is neither an SD card nor USB
C12_Witness ==
    /\ defaultRun # <<>>
    /\ defaultRun[1] >= 1
    /\ drives[defaultRun[1] + 1].isUsb
    /\ \E k \in EligibleRows(drives) : k < defaultRun[1]
    /\ currentIndex = defaultRun[1]
    /\ dst = drives[defaultRun[1] + 1].device

\* C14: whatever the sequence of clicks, keyboard selections, default
\* selections and system-drive dialog answers, imageWriter.setDst is never
\* called with the device of a read-only drive.
C14_NeverReadOnly ==
    \A k \in 1..Len(lastSetDst) : ~IsReadOnlyDevice(lastSetDst[k].device)

\* Enter was pressed on a shown read-only row after a drive had been picked
\* by hand: the destination is still the drive picked before
C14_Witness ==
    /\ currentIndex \in Rows
    /\ drives[currentIndex + 1].isReadOnly
    /\ ~shouldHide(drives[currentIndex + 1], filterChecked)
    /\ nextClicked
    /\ lastSetDst # <<>>
    /\ lastSetDst[1].by = "selectDstItem"
    /\ \E k \in Rows : k # currentIndex /\ drives[k + 1].device = dst

\* C15: in every state where a destination has been set, dstlist.currentIndex
\* is the row of the drive last passed to imageWriter.setDst, and that row's
\* description is selectedStorageName.
C15_HighlightIsDestination ==
    dst # "" =>
        /\ currentIndex \in Rows
        /\ drives[currentIndex + 1].device = dst
        /\ drives[currentIndex + 1].description = selectedStorageName
====
